---- MODULE Spec2Model ----
(***************************************************************************)
(* State-machine model of SmartAssistant (src/client.py): the dialogue    *)
(* dispatcher get_response, the regex extraction helpers and the          *)
(* in-memory user database.                                                *)
(*                                                                         *)
(* Texts are sequences of lexemes.  A lexeme is one of the character      *)
(* classes the code's substring tests and regular expressions tell apart: *)
(* a blank " ", a newline "\n", a single digit "0".."9", "@", ".", ",",    *)
(* "[", "]", or an indivisible word.  The Chinese literals of the source  *)
(* are written as ASCII words:                                             *)
(*   用户信息：  "UserInfo:"     查询条件：  "QueryCond:"                  *)
(*   删除条件：  "DeleteCond:"   姓名:  "Name:"      性别:  "Gender:"      *)
(*   年龄:  "Age:"               密码:  "Password:"  邮箱:  "Email:"       *)
(*   用户ID:  "UserID:"          张三  "ZhangSan"    男  "Male"            *)
(***************************************************************************)
EXTENDS Integers, Sequences, FiniteSets, TLC

VARIABLES
    messages,            \* self.messages: state name -> list of {role, content}
    current_assignment,  \* self.current_assignment
    user_database,       \* self.user_database: id -> record
    next_user_id,        \* self.next_user_id
    pc,                  \* "input": start_conversation waits at input(); "loop": inside get_response
    current_messages,    \* get_response's local: the key of the list it aliases
    user_input,          \* get_response's argument
    reply,               \* what the last call of get_response gave its caller
    turn,                \* number of get_response calls started
    calls,               \* gateway calls made by the current get_response call
    pre,                 \* the dispatcher state when the current get_response call began
    step,                \* the last loop iteration: its branch, response and the state before it
    log,                 \* every gateway call of the session, in order
    env                  \* the environment explored: response pool and exploration caps

vars == <<messages, current_assignment, user_database, next_user_id, pc,
          current_messages, user_input, reply, turn, calls, pre, step, log, env>>

-----------------------------------------------------------------------------
(* Bounds of the exploration *)

MaxTurns == 2
MaxCalls == 4
MaxChainCalls == 6

-----------------------------------------------------------------------------
(* Texts *)

Min(S) == CHOOSE x \in S : \A y \in S : x <= y

\* `pat in text` of Python: pat occurs as a contiguous part of text
Contains(text, pat) ==
    \E i \in 1..(Len(text) - Len(pat) + 1) : SubSeq(text, i, i + Len(pat) - 1) = pat

\* \s of the regular expressions
IsSpace(c) == c \in {" ", "\n"}

\* \d of the regular expressions
IsDigit(c) == c \in {"0", "1", "2", "3", "4", "5", "6", "7", "8", "9"}

DigitVal(c) ==
    CASE c = "0" -> 0 [] c = "1" -> 1 [] c = "2" -> 2 [] c = "3" -> 3 [] c = "4" -> 4
      [] c = "5" -> 5 [] c = "6" -> 6 [] c = "7" -> 7 [] c = "8" -> 8 [] c = "9" -> 9

DigitChar(d) == <<"0", "1", "2", "3", "4", "5", "6", "7", "8", "9">>[d + 1]

\* int(s) on a run of digits
RECURSIVE ToInt(_)
ToInt(s) ==
    IF Len(s) = 0 THEN 0
    ELSE 10 * ToInt(SubSeq(s, 1, Len(s) - 1)) + DigitVal(s[Len(s)])

\* str(n) / f"{n}" of a non-negative integer
RECURSIVE ToStr(_)
ToStr(n) ==
    IF n < 10 THEN <<DigitChar(n)>>
    ELSE Append(ToStr(n \div 10), DigitChar(n % 10))

-----------------------------------------------------------------------------
(* Extraction: the regular expressions of the _parse_* helpers *)

\* the class a capturing group repeats: kind "D" is \d, the other kinds \S
InClass(c, kind) == IF kind = "D" THEN IsDigit(c) ELSE ~IsSpace(c)

\* where a greedy \s* starting at p stops
SkipSpaces(d, p) == Min({q \in p..(Len(d) + 1) : q = Len(d) + 1 \/ ~IsSpace(d[q])})

\* the last position of the longest run of lexemes of the class starting at p
\* (p - 1 when the run is empty)
RunEnd(d, p, kind) ==
    Min({e \in (p - 1)..Len(d) : e = Len(d) \/ ~InClass(d[e + 1], kind)})

\* re.search(marker + r"\[(.*?)\]", text): the positions where the match can start
MarkerStarts(text, marker) ==
    {i \in 1..(Len(text) - 1) :
        /\ text[i] = marker
        /\ text[i + 1] = "["
        /\ \E j \in (i + 2)..Len(text) :
              /\ text[j] = "]"
              /\ \A n \in (i + 2)..(j - 1) : text[n] # "\n"}

\* match.group(1) of the leftmost match: up to the first "]"
BracketSpan(text, marker) ==
    LET i == Min(MarkerStarts(text, marker))
        j == Min({n \in (i + 2)..Len(text) : text[n] = "]"})
    IN  SubSeq(text, i + 2, j - 1)

\* \S+@\S+\.\S+ matches on the run of non-blank lexemes p..e
EmailShape(d, p, e) ==
    \E a \in (p + 1)..e : \E b \in (a + 2)..(e - 1) : d[a] = "@" /\ d[b] = "."

\* label + r"\s*(...)" can match with the label at position k.
\* kind "S" is (\S+), "D" is (\d+), "E" is (\S+@\S+\.\S+)
MatchesAt(d, k, label, kind) ==
    /\ d[k] = label
    /\ LET p == SkipSpaces(d, k + 1)
       IN  /\ p <= Len(d)
           /\ kind = "D" => IsDigit(d[p])
           /\ kind = "E" => EmailShape(d, p, RunEnd(d, p, "S"))

\* group(1) of the match with the label at position k: the greedy run
GroupAt(d, k, kind) ==
    LET p == SkipSpaces(d, k + 1)
    IN  SubSeq(d, p, RunEnd(d, p, kind))

FieldStarts(d, label, kind) == {k \in 1..Len(d) : MatchesAt(d, k, label, kind)}

\* m = re.search(pattern, data_str); m is not None
FieldFound(d, label, kind) == FieldStarts(d, label, kind) # {}

\* m.group(1)
FieldValue(d, label, kind) == GroupAt(d, Min(FieldStarts(d, label, kind)), kind)

\* the first key, in the order of the patterns dict, whose pattern finds nothing
MissingKeys(d, patterns) ==
    {n \in 1..Len(patterns) : ~FieldFound(d, patterns[n].label, patterns[n].kind)}

RegistrationPatterns ==
    << [key |-> "name",     label |-> "Name:",     kind |-> "S"],
       [key |-> "gender",   label |-> "Gender:",   kind |-> "S"],
       [key |-> "age",      label |-> "Age:",      kind |-> "D"],
       [key |-> "password", label |-> "Password:", kind |-> "S"],
       [key |-> "email",    label |-> "Email:",    kind |-> "E"] >>

QueryPatterns ==
    << [key |-> "user_id",  label |-> "UserID:",   kind |-> "D"],
       [key |-> "password", label |-> "Password:", kind |-> "S"] >>

DeletePatterns ==
    << [key |-> "user_id",  label |-> "UserID:",   kind |-> "D"],
       [key |-> "password", label |-> "Password:", kind |-> "S"],
       [key |-> "email",    label |-> "Email:",    kind |-> "E"] >>

\* The helpers return None on failure and print which part was missing; the
\* model keeps the return value (ok, info) and the printed diagnostic (err).
ParseFailure(what) == [ok |-> FALSE, err |-> what]

parse_registration_info(text) ==
    IF MarkerStarts(text, "UserInfo:") = {} THEN ParseFailure("marker")
    ELSE LET d == BracketSpan(text, "UserInfo:")
             miss == MissingKeys(d, RegistrationPatterns)
         IN  IF miss # {} THEN ParseFailure(RegistrationPatterns[Min(miss)].key)
             ELSE [ok |-> TRUE,
                   info |-> [name     |-> FieldValue(d, "Name:", "S"),
                             gender   |-> FieldValue(d, "Gender:", "S"),
                             age      |-> ToInt(FieldValue(d, "Age:", "D")),
                             password |-> FieldValue(d, "Password:", "S"),
                             email    |-> FieldValue(d, "Email:", "E")]]

\* a parser that skips a missing field instead of giving up
parse_query_info_partial(text) ==
    IF MarkerStarts(text, "QueryCond:") = {} THEN ParseFailure("marker")
    ELSE LET d == BracketSpan(text, "QueryCond:")
         IN  [ok |-> TRUE,
              info |-> [user_id  |-> IF FieldFound(d, "UserID:", "D")
                                     THEN ToInt(FieldValue(d, "UserID:", "D")) ELSE 0,
                        password |-> IF FieldFound(d, "Password:", "S")
                                     THEN FieldValue(d, "Password:", "S") ELSE <<>>]]

parse_query_info(text) ==
    IF MarkerStarts(text, "QueryCond:") = {} THEN ParseFailure("marker")
    ELSE LET d == BracketSpan(text, "QueryCond:")
             miss == MissingKeys(d, QueryPatterns)
         IN  IF miss # {} THEN ParseFailure(QueryPatterns[Min(miss)].key)
             ELSE [ok |-> TRUE,
                   info |-> [user_id  |-> ToInt(FieldValue(d, "UserID:", "D")),
                             password |-> FieldValue(d, "Password:", "S")]]

parse_delete_info(text) ==
    IF MarkerStarts(text, "DeleteCond:") = {} THEN ParseFailure("marker")
    ELSE LET d == BracketSpan(text, "DeleteCond:")
             miss == MissingKeys(d, DeletePatterns)
         IN  IF miss # {} THEN ParseFailure(DeletePatterns[Min(miss)].key)
             ELSE [ok |-> TRUE,
                   info |-> [user_id  |-> ToInt(FieldValue(d, "UserID:", "D")),
                             password |-> FieldValue(d, "Password:", "S"),
                             email    |-> FieldValue(d, "Email:", "E")]]

-----------------------------------------------------------------------------
(* Prompts, triggers and the fixed message texts *)

States == {"system", "registered", "query", "delete"}

\* getattr(self, f"{state}_prompt"); the prompt texts are opaque to the dispatcher
Prompt(state) ==
    CASE state = "system"     -> <<"sys_prompt">>
      [] state = "registered" -> <<"registered_prompt">>
      [] state = "query"      -> <<"query_prompt">>
      [] state = "delete"     -> <<"delete_prompt">>

Entry(role, content) == [role |-> role, content |-> content]

SystemEntry(state) == Entry("system", Prompt(state))

RegisteredWorkers == <<"registered", " ", "workers">>
QueryWorkers      == <<"query", " ", "workers">>
DeleteWorkers     == <<"delete", " ", "workers">>
CustomerService   == <<"customer", " ", "service">>

\* the chain with the return trigger tested first
TriggerReturnFirst(text) ==
    IF Contains(text, CustomerService) THEN "return"
    ELSE IF Contains(text, RegisteredWorkers) THEN "registered"
    ELSE IF Contains(text, QueryWorkers) THEN "query"
    ELSE IF Contains(text, DeleteWorkers) THEN "delete"
    ELSE "none"

\* the if/elif chain on ai_response: which branch the response selects
Trigger(text) ==
    IF Contains(text, RegisteredWorkers) THEN "registered"
    ELSE IF Contains(text, QueryWorkers) THEN "query"
    ELSE IF Contains(text, DeleteWorkers) THEN "delete"
    ELSE IF Contains(text, CustomerService) THEN "return"
    ELSE "none"

\* f" (您的用户 ID 是: {new_user_id})"
MsgRegistered(new_user_id) == <<" ", "(YourUserIDIs:", " ">> \o ToStr(new_user_id) \o <<")">>
\* " (错误：注册信息解析失败，未能存储用户)"
MsgRegisterParseFailed == <<" ", "(Error:RegistrationParseFailed,UserNotStored)">>
\* f" \n查询成功！您的信息如下： {user_data}": the repr of the dict without password
MsgQueryOK(user_data) ==
    <<" ", "\n", "QuerySucceeded!YourInfo:", " ", "{'name':", " ", "'">> \o user_data.name
      \o <<"'", ",", " ", "'gender':", " ", "'">> \o user_data.gender
      \o <<"'", ",", " ", "'age':", " ">> \o ToStr(user_data.age)
      \o <<",", " ", "'email':", " ", "'">> \o user_data.email \o <<"'", "}">>
\* " \n查询失败：用户ID或密码错误。"
MsgQueryFailed == <<" ", "\n", "QueryFailed:WrongUserIDOrPassword.">>
\* " (错误：查询信息解析失败)"
MsgQueryParseFailed == <<" ", "(Error:QueryParseFailed)">>
\* " \n用户删除成功！"
MsgDeleted == <<" ", "\n", "UserDeleted!">>
\* " \n删除失败：用户信息不匹配。"
MsgDeleteFailed == <<" ", "\n", "DeleteFailed:UserInfoMismatch.">>
\* " (错误：删除信息解析失败)"
MsgDeleteParseFailed == <<" ", "(Error:DeleteParseFailed)">>

-----------------------------------------------------------------------------
(* The simulated database.  Each operator gives the database after the call *)
(* together with the call's return value.                                   *)

FirstUserId == 10001

EmptyDatabase == [id \in {} |-> id]

\* an id derived from the number of stored records instead of the counter
register_user_by_count(db, next_id, info) ==
    LET id_ == FirstUserId + Cardinality(DOMAIN db)
    IN  [db   |-> [id \in DOMAIN db \cup {id_} |->
                      IF id = id_
                      THEN [name |-> info.name, gender |-> info.gender, age |-> info.age,
                            password |-> info.password, email |-> info.email]
                      ELSE db[id]],
         next |-> next_id + 1,
         ret  |-> id_]

register_user(db, next_id, info) ==
    [db   |-> [id \in DOMAIN db \cup {next_id} |->
                  IF id = next_id
                  THEN [name |-> info.name, gender |-> info.gender, age |-> info.age,
                        password |-> info.password, email |-> info.email]
                  ELSE db[id]],
     next |-> next_id + 1,
     ret  |-> next_id]

\* a query that returns the stored record as it is
query_user_with_password(db, user_id, password) ==
    IF user_id \in DOMAIN db /\ db[user_id].password = password
    THEN [found |-> TRUE, data |-> db[user_id]]
    ELSE [found |-> FALSE]

\* returns the record without its password, or None
query_user(db, user_id, password) ==
    IF user_id \in DOMAIN db /\ db[user_id].password = password
    THEN [found |-> TRUE,
          data  |-> [name |-> db[user_id].name, gender |-> db[user_id].gender,
                     age |-> db[user_id].age, email |-> db[user_id].email]]
    ELSE [found |-> FALSE]

\* a deletion that does not compare the email
delete_user_any_email(db, user_id, password, email) ==
    IF user_id \in DOMAIN db /\ db[user_id].password = password
    THEN [db |-> [id \in DOMAIN db \ {user_id} |-> db[id]], ret |-> TRUE]
    ELSE [db |-> db, ret |-> FALSE]

\* a deletion that does not compare the password
delete_user_any_password(db, user_id, password, email) ==
    IF user_id \in DOMAIN db /\ db[user_id].email = email
    THEN [db |-> [id \in DOMAIN db \ {user_id} |-> db[id]], ret |-> TRUE]
    ELSE [db |-> db, ret |-> FALSE]

delete_user(db, user_id, password, email) ==
    IF /\ user_id \in DOMAIN db
       /\ db[user_id].password = password
       /\ db[user_id].email = email
    THEN [db |-> [id \in DOMAIN db \ {user_id} |-> db[id]], ret |-> TRUE]
    ELSE [db |-> db, ret |-> FALSE]

-----------------------------------------------------------------------------
(* get_response: the pieces of one loop iteration *)

\* a registration finishes on a parse failure, but the id is already taken
FinishRegisteredCountingFailures(ai_response, db, next_id) ==
    LET parsed == parse_registration_info(ai_response)
    IN  IF parsed.ok
        THEN LET r == register_user(db, next_id, parsed.info)
             IN  [msg |-> MsgRegistered(r.ret), db |-> r.db, next |-> r.next]
        ELSE [msg |-> MsgRegisterParseFailed, db |-> db, next |-> next_id + 1]

\* previous_assignment == "registered": parse, register, compose the message
FinishRegistered(ai_response, db, next_id) ==
    LET parsed == parse_registration_info(ai_response)
    IN  IF parsed.ok
        THEN LET r == register_user(db, next_id, parsed.info)
             IN  [msg |-> MsgRegistered(r.ret), db |-> r.db, next |-> r.next]
        ELSE [msg |-> MsgRegisterParseFailed, db |-> db, next |-> next_id]

\* a lookup that tells an unknown id from a wrong password
FinishQueryNamingUnknownIds(ai_response, db, next_id) ==
    LET parsed == parse_query_info(ai_response)
    IN  IF parsed.ok
        THEN LET user_data == query_user(db, parsed.info.user_id, parsed.info.password)
             IN  [msg  |-> IF user_data.found THEN MsgQueryOK(user_data.data)
                           ELSE IF parsed.info.user_id \in DOMAIN db THEN MsgQueryFailed
                           ELSE <<" ", "\n", "QueryFailed:NoSuchUser.">>,
                  db   |-> db,
                  next |-> next_id]
        ELSE [msg |-> MsgQueryParseFailed, db |-> db, next |-> next_id]

\* previous_assignment == "query": parse, query, compose the message
FinishQuery(ai_response, db, next_id) ==
    LET parsed == parse_query_info(ai_response)
    IN  IF parsed.ok
        THEN LET user_data == query_user(db, parsed.info.user_id, parsed.info.password)
             IN  [msg  |-> IF user_data.found THEN MsgQueryOK(user_data.data)
                           ELSE MsgQueryFailed,
                  db   |-> db,
                  next |-> next_id]
        ELSE [msg |-> MsgQueryParseFailed, db |-> db, next |-> next_id]

\* previous_assignment == "delete": parse, delete, compose the message
FinishDelete(ai_response, db, next_id) ==
    LET parsed == parse_delete_info(ai_response)
    IN  IF parsed.ok
        THEN LET r == delete_user(db, parsed.info.user_id, parsed.info.password,
                                  parsed.info.email)
             IN  [msg  |-> IF r.ret THEN MsgDeleted ELSE MsgDeleteFailed,
                  db   |-> r.db,
                  next |-> next_id]
        ELSE [msg |-> MsgDeleteParseFailed, db |-> db, next |-> next_id]

\* the elif "customer service" branch up to the print: the database action of
\* the finished task and db_action_result_msg; no task matches "system"
FinalizeOutcome(previous_assignment, ai_response, db, next_id) ==
    IF previous_assignment = "registered" THEN FinishRegistered(ai_response, db, next_id)
    ELSE IF previous_assignment = "query" THEN FinishQuery(ai_response, db, next_id)
    ELSE IF previous_assignment = "delete" THEN FinishDelete(ai_response, db, next_id)
    ELSE [msg |-> <<>>, db |-> db, next |-> next_id]

\* the merge of the earlier revision: the whole list, system entry included
MergeWithSystemEntry(msgs, cur, previous_assignment, final) ==
    LET appended == [msgs EXCEPT ![cur] = Append(@, Entry("assistant", final))]
        merged   == [appended EXCEPT !["system"] = @ \o appended[cur]]
    IN  [merged EXCEPT ![previous_assignment] = <<SystemEntry(previous_assignment)>>]

\* append the final response to the list current_messages aliases, extend
\* messages["system"] with a copy of that list minus its first entry, then
\* rebind messages[previous_assignment] to a fresh list
MergeAndReset(msgs, cur, previous_assignment, final) ==
    LET appended == [msgs EXCEPT ![cur] = Append(@, Entry("assistant", final))]
        merged   == [appended EXCEPT !["system"] = @ \o Tail(appended[cur])]
    IN  [merged EXCEPT ![previous_assignment] = <<SystemEntry(previous_assignment)>>]

\* the switch of the earlier revision: the triggering response is not recorded
SwitchMessagesUnrecorded(msgs, cur, next_assignment, ai_response, input) ==
    LET target == msgs[next_assignment]
    IN  IF Len(target) = 0 \/ target[Len(target)].role # "user"
        THEN [msgs EXCEPT ![next_assignment] = Append(@, Entry("user", input))]
        ELSE msgs

\* the switch that does not hand the user text to the new state
SwitchMessagesWithoutUserText(msgs, cur, next_assignment, ai_response, input) ==
    [msgs EXCEPT ![cur] = Append(@, Entry("assistant", ai_response))]

\* the switch with the triggering response filed in the main history
SwitchMessagesFiledInMain(msgs, cur, next_assignment, ai_response, input) ==
    LET appended == [msgs EXCEPT !["system"] = Append(@, Entry("assistant", ai_response))]
        target   == appended[next_assignment]
    IN  IF Len(target) = 0 \/ target[Len(target)].role # "user"
        THEN [appended EXCEPT ![next_assignment] = Append(@, Entry("user", input))]
        ELSE appended

\* steps 1 to 4 of the switch to a worker
SwitchMessages(msgs, cur, next_assignment, ai_response, input) ==
    LET appended == [msgs EXCEPT ![cur] = Append(@, Entry("assistant", ai_response))]
        target   == appended[next_assignment]
    IN  IF Len(target) = 0 \/ target[Len(target)].role # "user"
        THEN [appended EXCEPT ![next_assignment] = Append(@, Entry("user", input))]
        ELSE appended

\* the response is returned but not recorded
PlainMessagesDropped(msgs, cur, ai_response) == msgs

\* the standard response: append to the current history
PlainMessages(msgs, cur, ai_response) ==
    [msgs EXCEPT ![cur] = Append(@, Entry("assistant", ai_response))]

-----------------------------------------------------------------------------
(* Observation of a run *)

Snapshot ==
    [messages |-> messages, current_assignment |-> current_assignment,
     user_database |-> user_database, next_user_id |-> next_user_id]

NoReply == [kind |-> "none"]
Returned(text) == [kind |-> "text", text |-> text]
Raised == [kind |-> "error"]

\* one loop iteration as seen from outside: the branch taken, the response, the
\* state it started from and the message list handed to the gateway
StepRecord(kind, text) ==
    [kind |-> kind, text |-> text, from |-> current_assignment, before |-> Snapshot,
     sent |-> messages[current_messages]]

LogEntry(ok, text) == [turn |-> turn, ok |-> ok, text |-> text]

-----------------------------------------------------------------------------
(* The environment: what the user types and what the model answers *)

\* The line typed in the n-th turn.  get_response never inspects the line, it
\* only stores it, so one line per turn, different in every turn, stands for
\* all of them.
InputLine(n) == <<"line">> \o ToStr(n)

\* 姓名: 张三, 性别: 男, 年龄: 25, 密码: pass1, 邮箱: a@b.com
RegistrationFields ==
    <<"Name:", " ", "ZhangSan", ",", " ", "Gender:", " ", "Male", ",", " ",
      "Age:", " ", "2", "5", ",", " ", "Password:", " ", "pass1", ",", " ",
      "Email:", " ", "a", "@", "b", ".", "com">>

\* no trigger
RespPlain == <<"hello">>
\* only the switch trigger of registration
RespSwitchRegistered == <<"calling", " ">> \o RegisteredWorkers
\* return trigger and two switch triggers, lowest priority first
RespTieQuery == CustomerService \o <<" ">> \o DeleteWorkers \o <<" ">> \o QueryWorkers
\* all four triggers, lowest priority first
RespTieRegistered == RespTieQuery \o <<" ">> \o RegisteredWorkers
\* the registration confirmation in the prompt's format, then the return trigger
RespRegisterOK ==
    <<"RegistrationSucceeded!", "UserInfo:", "[">> \o RegistrationFields
      \o <<"]", " ">> \o CustomerService
\* a complete registration confirmation with the return trigger and a switch trigger
RespTieDelete == RespRegisterOK \o <<" ">> \o DeleteWorkers
\* only the return trigger, no marker
RespReturn == <<"bye", " ">> \o CustomerService
\* a registration confirmation without the email field
RespRegisterNoEmail ==
    <<"UserInfo:", "[">> \o SubSeq(RegistrationFields, 1, 19) \o <<"]", " ">>
      \o CustomerService
\* 正在查询... 查询条件：[用户ID: 10001, 密码: pass1]
RespQuery ==
    <<"Querying...", " ", "QueryCond:", "[", "UserID:", " ", "1", "0", "0", "0", "1",
      ",", " ", "Password:", " ", "pass1", "]", " ">> \o CustomerService
\* the same conditions with the password written first
RespQueryPasswordFirst ==
    <<"QueryCond:", "[", "Password:", " ", "pass1", ",", " ", "UserID:", " ",
      "1", "0", "0", "0", "1", "]", " ">> \o CustomerService
\* 将删除用户... 删除条件：[用户ID: 10001, 密码: pass1, 邮箱: a@b.com]
RespDelete ==
    <<"Deleting...", " ", "DeleteCond:", "[", "UserID:", " ", "1", "0", "0", "0", "1",
      ",", " ", "Password:", " ", "pass1", ",", " ", "Email:", " ", "a", "@", "b", ".",
      "com", "]", " ">> \o CustomerService
\* a deletion with another email address
RespDeleteOtherEmail ==
    <<"DeleteCond:", "[", "UserID:", " ", "1", "0", "0", "0", "1",
      ",", " ", "Password:", " ", "pass1", ",", " ", "Email:", " ", "x", "@", "b", ".",
      "com", "]", " ">> \o CustomerService

Responses ==
    {RespPlain, RespSwitchRegistered, RespTieQuery, RespTieRegistered, RespTieDelete,
     RespReturn, RespRegisterOK, RespRegisterNoEmail, RespQuery, RespQueryPasswordFirst,
     RespDelete, RespDeleteOtherEmail}

ChainResponses == {RespPlain, RespSwitchRegistered, RespTieQuery, RespReturn}

-----------------------------------------------------------------------------
(* The state machine *)

\* SmartAssistant.__init__
InitAssistant ==
    /\ messages = [state \in States |-> <<SystemEntry(state)>>]
    /\ current_assignment = "system"
    /\ user_database = EmptyDatabase
    /\ next_user_id = FirstUserId

InitRun ==
    /\ InitAssistant
    /\ pc = "input"
    /\ current_messages = "system"
    /\ user_input = <<>>
    /\ reply = NoReply
    /\ turn = 0
    /\ calls = 0
    /\ pre = Snapshot
    /\ step = [kind |-> "none"]
    /\ log = <<>>

Init == InitRun /\ env = [pool |-> Responses, turns |-> MaxTurns, calls |-> MaxCalls]

InitChain ==
    InitRun /\ env = [pool |-> ChainResponses, turns |-> 1, calls |-> MaxChainCalls]

\* start_conversation hands a line to get_response, which appends it to the
\* history of the current state and enters its loop
GetResponseBegin(input) ==
    /\ pc = "input"
    /\ turn < env.turns
    /\ pre' = Snapshot
    /\ current_messages' = current_assignment
    /\ messages' = [messages EXCEPT ![current_assignment] = Append(@, Entry("user", input))]
    /\ user_input' = input
    /\ turn' = turn + 1
    /\ calls' = 0
    /\ reply' = NoReply
    /\ step' = [kind |-> "none"]
    /\ pc' = "loop"
    /\ UNCHANGED <<current_assignment, user_database, next_user_id, log, env>>

CanCall == pc = "loop" /\ Len(log) < env.calls

\* the gateway answers with a switch trigger: switch and loop again
SwitchToWorker(ai_response) ==
    /\ CanCall
    /\ Trigger(ai_response) \in {"registered", "query", "delete"}
    /\ LET next_assignment == Trigger(ai_response)
       IN  /\ messages' = SwitchMessages(messages, current_messages, next_assignment,
                                         ai_response, user_input)
           /\ current_assignment' = next_assignment
           /\ current_messages' = next_assignment
    /\ calls' = calls + 1
    /\ step' = StepRecord("switch", ai_response)
    /\ log' = Append(log, LogEntry(TRUE, ai_response))
    /\ UNCHANGED <<user_database, next_user_id, pc, user_input, reply, turn, pre, env>>

\* the gateway answers with the return trigger: finish the task and return
ReturnToSystem(ai_response) ==
    /\ CanCall
    /\ Trigger(ai_response) = "return"
    /\ LET out == FinalizeOutcome(current_assignment, ai_response, user_database,
                                  next_user_id)
       IN  /\ user_database' = out.db
           /\ next_user_id' = out.next
           /\ messages' = MergeAndReset(messages, current_messages, current_assignment,
                                        ai_response \o out.msg)
           /\ reply' = Returned(ai_response \o out.msg)
    /\ current_assignment' = "system"
    /\ calls' = calls + 1
    /\ step' = StepRecord("finalize", ai_response)
    /\ log' = Append(log, LogEntry(TRUE, ai_response))
    /\ pc' = "input"
    /\ UNCHANGED <<current_messages, user_input, turn, pre, env>>

\* the gateway answers without any trigger: record and return
StandardResponse(ai_response) ==
    /\ CanCall
    /\ Trigger(ai_response) = "none"
    /\ messages' = PlainMessages(messages, current_messages, ai_response)
    /\ reply' = Returned(ai_response)
    /\ calls' = calls + 1
    /\ step' = StepRecord("plain", ai_response)
    /\ log' = Append(log, LogEntry(TRUE, ai_response))
    /\ pc' = "input"
    /\ UNCHANGED <<current_assignment, user_database, next_user_id, current_messages,
                   user_input, turn, pre, env>>

\* the handler that puts the dispatcher back to the main dialogue
AfterErrorReset(assignment) == "system"

\* the active state after the except block of start_conversation, which prints
\* the apology and touches nothing
AfterError(assignment) == assignment

\* client.chat.completions.create raises: the exception leaves get_response and
\* is caught by start_conversation, which asks for the next line
GatewayRaises ==
    /\ CanCall
    /\ reply' = Raised
    /\ calls' = calls + 1
    /\ step' = StepRecord("raise", <<>>)
    /\ log' = Append(log, LogEntry(FALSE, <<>>))
    /\ current_assignment' = AfterError(current_assignment)
    /\ pc' = "input"
    /\ UNCHANGED <<messages, user_database, next_user_id, current_messages,
                   user_input, turn, pre, env>>

Next ==
    \/ \E input \in {InputLine(turn + 1)} : GetResponseBegin(input)
    \/ \E ai_response \in env.pool : SwitchToWorker(ai_response)
    \/ \E ai_response \in env.pool : ReturnToSystem(ai_response)
    \/ \E ai_response \in env.pool : StandardResponse(ai_response)
    \/ GatewayRaises

Spec == Init /\ [][Next]_vars

\* one call of get_response answered from a small pool, to follow long chains of switches
SpecChain == InitChain /\ [][Next]_vars

-----------------------------------------------------------------------------
(* The loop of start_conversation: every line read is tested for the exit  *)
(* words before a turn is run for it.                                       *)

MaxSessionTurns == 2
MaxSessionCalls == 3

\* str.lower on the words typed in these runs
LowerWord(w) ==
    CASE w = "EXIT" -> "exit"
      [] w = "Exit" -> "exit"
      [] w = "Quit" -> "quit"
      [] w = "QUIT" -> "quit"
      [] OTHER      -> w

Lower(line) == [i \in 1..Len(line) |-> LowerWord(line[i])]

ExitWords == {<<"exit">>, <<"quit">>}

IsExit(line) == Lower(line) \in ExitWords

\* the lines typed as the n-th line that is not an exit word, and the exit
\* words in several spellings; a blank after the word makes another line
SessionLines(n) ==
    {InputLine(n), <<"exit", " ">>, <<"exit">>, <<"EXIT">>, <<"Quit">>}

SessionResponses == {RespPlain, RespSwitchRegistered, RespReturn}

InitSession ==
    InitRun /\ env = [pool |-> SessionResponses, turns |-> MaxSessionTurns,
                      calls |-> MaxSessionCalls]

\* the line is an exit word: leave the loop without calling get_response
Exit(line) ==
    /\ pc = "input"
    /\ IsExit(line)
    /\ pc' = "exited"
    /\ step' = [kind |-> "exit", line |-> line, before |-> Snapshot, turn |-> turn,
                calls |-> Len(log)]
    /\ UNCHANGED <<messages, current_assignment, user_database, next_user_id,
                   current_messages, user_input, reply, turn, calls, pre, log, env>>

\* any other line is handed to get_response
Turn(line) == ~IsExit(line) /\ GetResponseBegin(line)

NextSession ==
    \/ \E line \in SessionLines(turn + 1) : Exit(line)
    \/ \E line \in SessionLines(turn + 1) : Turn(line)
    \/ \E ai_response \in env.pool : SwitchToWorker(ai_response)
    \/ \E ai_response \in env.pool : ReturnToSystem(ai_response)
    \/ \E ai_response \in env.pool : StandardResponse(ai_response)
    \/ GatewayRaises

SpecSession == InitSession /\ [][NextSession]_vars

-----------------------------------------------------------------------------
(* The database helpers called directly, in any order, on a fresh assistant. *)
(* In these runs step is the last call with its arguments, its return value *)
(* and the state before it, log the ids _register_user returned, and calls  *)
(* the number of calls made.                                                 *)

MaxStoreCalls == 4

Email(local) == <<local, "@", "b", ".", "com">>

StoreInfos ==
    { [name |-> <<"ZhangSan">>, gender |-> <<"Male">>, age |-> 25,
       password |-> <<"pass1">>, email |-> Email("a")],
      [name |-> <<"LiSi">>, gender |-> <<"Female">>, age |-> 30,
       password |-> <<"pass2">>, email |-> Email("a")] }

StoreIds == {FirstUserId, FirstUserId + 1, FirstUserId + 2}
StorePasswords == {<<"pass1">>, <<"pass2">>}
StoreEmails == {Email("a"), Email("x")}

InitStore ==
    /\ InitAssistant
    /\ pc = "store"
    /\ current_messages = "system"
    /\ user_input = <<>>
    /\ reply = NoReply
    /\ turn = 0
    /\ calls = 0
    /\ pre = Snapshot
    /\ step = [kind |-> "none"]
    /\ log = <<>>
    /\ env = [pool |-> {}, turns |-> 0, calls |-> MaxStoreCalls]

CanCallStore == pc = "store" /\ calls < env.calls

CallRegister(info) ==
    /\ CanCallStore
    /\ LET r == register_user(user_database, next_user_id, info)
       IN  /\ user_database' = r.db
           /\ next_user_id' = r.next
           /\ step' = [kind |-> "register", info |-> info, ret |-> r.ret,
                       before |-> Snapshot]
           /\ log' = Append(log, r.ret)
    /\ calls' = calls + 1
    /\ UNCHANGED <<messages, current_assignment, pc, current_messages, user_input,
                   reply, turn, pre, env>>

CallQuery(user_id, password) ==
    /\ CanCallStore
    /\ step' = [kind |-> "query", user_id |-> user_id, password |-> password,
                ret |-> query_user(user_database, user_id, password),
                before |-> Snapshot]
    /\ calls' = calls + 1
    /\ UNCHANGED <<messages, current_assignment, user_database, next_user_id, pc,
                   current_messages, user_input, reply, turn, pre, log, env>>

CallDelete(user_id, password, email) ==
    /\ CanCallStore
    /\ LET r == delete_user(user_database, user_id, password, email)
       IN  /\ user_database' = r.db
           /\ step' = [kind |-> "delete", user_id |-> user_id, password |-> password,
                       email |-> email, ret |-> r.ret, before |-> Snapshot]
    /\ calls' = calls + 1
    /\ UNCHANGED <<messages, current_assignment, next_user_id, pc, current_messages,
                   user_input, reply, turn, pre, log, env>>

NextStore ==
    \/ \E info \in StoreInfos : CallRegister(info)
    \/ \E user_id \in StoreIds, password \in StorePasswords : CallQuery(user_id, password)
    \/ \E user_id \in StoreIds, password \in StorePasswords, email \in StoreEmails :
          CallDelete(user_id, password, email)

SpecStore == InitStore /\ [][NextStore]_vars

-----------------------------------------------------------------------------
(* The _parse_* helpers applied to texts built from the documented formats: *)
(* any subset of the fields of a schema, with or without the marker, with   *)
(* ", " or a blank between the fields.  In these runs env is the text and   *)
(* how it was built, and step the call with its result.                     *)

\* the states with a task to finish
SubDialoguesOf(states) == states \ {"system"}

\* the helper get_response selects for the task that finishes
ParseFor(state, text) ==
    CASE state = "registered" -> parse_registration_info(text)
      [] state = "query"      -> parse_query_info(text)
      [] state = "delete"     -> parse_delete_info(text)

PatternsOf(state) ==
    CASE state = "registered" -> RegistrationPatterns
      [] state = "query"      -> QueryPatterns
      [] state = "delete"     -> DeletePatterns

MarkerOf(state) ==
    CASE state = "registered" -> "UserInfo:"
      [] state = "query"      -> "QueryCond:"
      [] state = "delete"     -> "DeleteCond:"

KeysOf(state) == {PatternsOf(state)[n].key : n \in 1..Len(PatternsOf(state))}

\* the value written for a field in the prompts' examples
ExampleValue(key) ==
    CASE key = "name"     -> <<"ZhangSan">>
      [] key = "gender"   -> <<"Male">>
      [] key = "age"      -> <<"2", "5">>
      [] key = "password" -> <<"pass1">>
      [] key = "email"    -> Email("a")
      [] key = "user_id"  -> ToStr(FirstUserId)

\* the fields n.. of the schema that are present, written "label value" with
\* sep between two fields
RECURSIVE FieldList(_, _, _, _)
FieldList(patterns, present, sep, n) ==
    IF n > Len(patterns) THEN <<>>
    ELSE LET rest == FieldList(patterns, present, sep, n + 1)
             this == <<patterns[n].label, " ">> \o ExampleValue(patterns[n].key)
         IN  IF patterns[n].key \notin present THEN rest
             ELSE IF rest = <<>> THEN this
             ELSE this \o sep \o rest

Document(state, present, sep, marker) ==
    (IF marker THEN <<MarkerOf(state)>> ELSE <<>>)
      \o <<"[">> \o FieldList(PatternsOf(state), present, sep, 1) \o <<"]", " ">>
      \o CustomerService

Separators == {<<",", " ">>, <<" ">>}

InitExtract ==
    /\ InitAssistant
    /\ pc = "extract"
    /\ current_messages = "system"
    /\ user_input = <<>>
    /\ reply = NoReply
    /\ turn = 0
    /\ calls = 0
    /\ pre = Snapshot
    /\ step = [kind |-> "none"]
    /\ log = <<>>
    /\ \E state \in SubDialoguesOf(States), marker \in BOOLEAN, sep \in Separators :
          \E present \in SUBSET KeysOf(state) :
              env = [schema |-> state, present |-> present, sep |-> sep,
                     marker |-> marker, text |-> Document(state, present, sep, marker)]

Extract ==
    /\ pc = "extract"
    /\ step' = [kind |-> "extract", schema |-> env.schema, text |-> env.text,
                result |-> ParseFor(env.schema, env.text)]
    /\ pc' = "extracted"
    /\ UNCHANGED <<messages, current_assignment, user_database, next_user_id,
                   current_messages, user_input, reply, turn, calls, pre, log, env>>

NextExtract == Extract

SpecExtract == InitExtract /\ [][NextExtract]_vars

-----------------------------------------------------------------------------
(* The grading agent (src/grading_agent.py).  Its texts use further lexemes: *)
(* the two fences of a code block, three backquotes followed by json and    *)
(* three backquotes alone, written "~~~json" and "~~~"; the JSON            *)
(* punctuation "{", "}", ":"; and quoted JSON strings such as "\"score\"",   *)
(* each one lexeme.                                                         *)

\* stop_after_attempt(3) of the decorator of get_completion
StopAfterAttempt == 3

JsonStrings == {"\"score\"", "\"analysis\"", "\"ok\""}

JsonLiterals == {"true", "false", "null"}

NotSpace(c) == ~IsSpace(c)

NotNewline(c) == c # "\n"

\* json.loads as a scanner: the position after the value, the members of an
\* object or the elements of an array that begin at p, or 0 when there is none
RECURSIVE ValueEnd(_, _), MembersEnd(_, _), ElementsEnd(_, _)
ValueEnd(s, p0) ==
    LET p == SkipSpaces(s, p0)
    IN  IF p > Len(s) THEN 0
        ELSE IF IsDigit(s[p]) THEN (IF s[p] = "0" THEN p + 1 ELSE RunEnd(s, p, "D") + 1)
        ELSE IF s[p] \in JsonStrings \cup JsonLiterals THEN p + 1
        ELSE IF s[p] = "{"
             THEN LET q == SkipSpaces(s, p + 1)
                  IN  IF q <= Len(s) /\ s[q] = "}" THEN q + 1 ELSE MembersEnd(s, q)
        ELSE IF s[p] = "["
             THEN LET q == SkipSpaces(s, p + 1)
                  IN  IF q <= Len(s) /\ s[q] = "]" THEN q + 1 ELSE ElementsEnd(s, q)
        ELSE 0

MembersEnd(s, p) ==
    IF p > Len(s) \/ s[p] \notin JsonStrings THEN 0
    ELSE LET c == SkipSpaces(s, p + 1)
         IN  IF c > Len(s) \/ s[c] # ":" THEN 0
             ELSE LET e == ValueEnd(s, c + 1)
                      n == SkipSpaces(s, e)
                  IN  IF e = 0 \/ n > Len(s) THEN 0
                      ELSE IF s[n] = "}" THEN n + 1
                      ELSE IF s[n] = "," THEN MembersEnd(s, SkipSpaces(s, n + 1))
                      ELSE 0

ElementsEnd(s, p) ==
    LET e == ValueEnd(s, p)
        n == SkipSpaces(s, e)
    IN  IF e = 0 \/ n > Len(s) THEN 0
        ELSE IF s[n] = "]" THEN n + 1
        ELSE IF s[n] = "," THEN ElementsEnd(s, n + 1)
        ELSE 0

\* the text is one JSON value, blanks around it allowed
IsJson(s) ==
    LET e == ValueEnd(s, 1)
    IN  e # 0 /\ SkipSpaces(s, e) = Len(s) + 1

\* json.loads: the value, written without the blanks between its tokens, or
\* JSONDecodeError
json_loads(s) ==
    IF IsJson(s) THEN [ok |-> TRUE, value |-> SelectSeq(s, NotSpace)]
    ELSE [ok |-> FALSE]

\* the lexemes that begin with three backquotes
Fences == {"~~~json", "~~~"}

\* str.strip
Strip(s) ==
    LET keep == {i \in 1..Len(s) : ~IsSpace(s[i])}
    IN  IF keep = {} THEN <<>>
        ELSE SubSeq(s, Min(keep), CHOOSE i \in keep : \A j \in keep : j <= i)

\* the positions where the pattern, fence (.*?) fence, can start in t
FenceStarts(t) ==
    {i \in 1..Len(t) : t[i] = "~~~json" /\ \E j \in (i + 1)..Len(t) : t[j] \in Fences}

\* the text without its newlines; of it the stripped content of the first
\* json block, or all of it when there is no such block
extract_json_content(text) ==
    LET t == SelectSeq(text, NotNewline)
    IN  IF FenceStarts(t) = {} THEN t
        ELSE LET i == Min(FenceStarts(t))
                 j == Min({n \in (i + 1)..Len(t) : t[n] \in Fences})
             IN  Strip(SubSeq(t, i + 1, j - 1))

\* JsonOutputParser.parse: the parsed value, or the exception with the string
\* that was not JSON
parse(result) ==
    LET json_string == extract_json_content(result)
        parsed_result == json_loads(json_string)
    IN  IF parsed_result.ok THEN [ok |-> TRUE, value |-> parsed_result.value]
        ELSE [ok |-> FALSE, err |-> json_string]

\* In the runs of batch_grade, pc is "batch" between two items, "completion"
\* inside get_completion and "returned" at the end; turn is the number of the
\* item being graded, calls the attempts of the current get_completion, log the
\* list results, and env the lengths of the four argument lists.

MaxItems == 2

\* {"score": 8}
JsonScore(digits) == <<"{", "\"score\"", ":", " ">> \o digits \o <<"}">>

\* the value in a json block with a sentence around it
RespFenced ==
    <<"Here", " ", "it", " ", "is:", "\n", "~~~json", "\n">> \o JsonScore(<<"8">>)
      \o <<"\n", "~~~", "\n", "Done.">>
\* the value alone, on two lines
RespBare == <<"{", "\n", "\"score\"", ":", " ", "7", "}", "\n">>
\* no JSON at all
RespProse == <<"The", " ", "score", " ", "is", " ", "8">>
\* a json block whose content breaks off
RespFencedBroken == <<"~~~json", "\n", "{", "\"score\"", ":", " ", "8", "\n", "~~~">>
\* a json block that is never closed
RespUnclosed == <<"~~~json", "\n">> \o JsonScore(<<"8">>)
\* a number broken over two lines
RespSplitNumber == <<"{", "\"score\"", ":", " ", "8", "\n", "5", "}">>

GradingResponses ==
    {RespFenced, RespBare, RespProse, RespFencedBroken, RespUnclosed, RespSplitNumber}

\* the dict batch_grade appends for an item that could not be graded
ErrorRecord(i) ==
    <<"{", "\"question_index\"", ":">> \o ToStr(i)
      \o <<",", "\"error\"", ":", "\"Failed to grade\"", "}">>

\* the number of tuples zip yields
ZipLen(lens) ==
    Min({lens.questions, lens.standard_answers, lens.grading_criterias,
         lens.student_answers})

InitGrading ==
    /\ InitAssistant
    /\ pc = "batch"
    /\ current_messages = "system"
    /\ user_input = <<>>
    /\ reply = NoReply
    /\ turn = 0
    /\ calls = 0
    /\ pre = Snapshot
    /\ step = [kind |-> "none"]
    /\ log = <<>>
    /\ \E n \in 0..MaxItems, m \in 0..MaxItems :
          /\ m \in {n, n - 1}
          /\ env = [questions |-> n, standard_answers |-> n, grading_criterias |-> n,
                    student_answers |-> m]

\* the for loop takes the next tuple and grade_answer calls get_completion
GradeAnswerBegin ==
    /\ pc = "batch"
    /\ turn < ZipLen(env)
    /\ turn' = turn + 1
    /\ calls' = 0
    /\ pc' = "completion"
    /\ step' = [kind |-> "begin", item |-> turn + 1]
    /\ UNCHANGED <<messages, current_assignment, user_database, next_user_id,
                   current_messages, user_input, reply, pre, log, env>>

\* an attempt of get_completion raises: it is made again, unless it was the
\* last one allowed, and then the error leaves grade_answer and batch_grade
\* records it
AttemptRaises ==
    /\ pc = "completion"
    /\ calls < StopAfterAttempt
    /\ calls' = calls + 1
    /\ IF calls + 1 < StopAfterAttempt
       THEN /\ pc' = "completion"
            /\ log' = log
            /\ step' = [kind |-> "retry", item |-> turn, attempt |-> calls + 1]
       ELSE /\ pc' = "batch"
            /\ log' = Append(log, ErrorRecord(turn))
            /\ step' = [kind |-> "giveup", item |-> turn, attempt |-> calls + 1,
                        before |-> log]
    /\ UNCHANGED <<messages, current_assignment, user_database, next_user_id,
                   current_messages, user_input, reply, turn, pre, env>>

\* an attempt returns the model text: grade_answer parses it, and batch_grade
\* appends the result or, when the parser raised, the error record
AttemptReturns(response) ==
    /\ pc = "completion"
    /\ calls < StopAfterAttempt
    /\ calls' = calls + 1
    /\ LET result == parse(response)
       IN  /\ log' = Append(log, IF result.ok THEN result.value ELSE ErrorRecord(turn))
           /\ step' = [kind |-> "answer", item |-> turn, attempt |-> calls + 1,
                       text |-> response, outcome |-> result, before |-> log]
    /\ pc' = "batch"
    /\ UNCHANGED <<messages, current_assignment, user_database, next_user_id,
                   current_messages, user_input, reply, turn, pre, env>>

\* the for loop is exhausted: return results
BatchReturns ==
    /\ pc = "batch"
    /\ turn = ZipLen(env)
    /\ pc' = "returned"
    /\ reply' = [kind |-> "results", results |-> log]
    /\ step' = [kind |-> "return"]
    /\ UNCHANGED <<messages, current_assignment, user_database, next_user_id,
                   current_messages, user_input, turn, calls, pre, log, env>>

NextGrading ==
    \/ GradeAnswerBegin
    \/ AttemptRaises
    \/ \E response \in GradingResponses : AttemptReturns(response)
    \/ BatchReturns

SpecGrading == InitGrading /\ [][NextGrading]_vars

-----------------------------------------------------------------------------
(* Properties *)

Last(h) == h[Len(h)]

SubDialogues == {"registered", "query", "delete"}

\* a call of get_response has come back to start_conversation
TurnOver == pc = "input" /\ turn > 0

\* every gateway call so far answered, and answered without any trigger
NoTriggerSoFar ==
    \A i \in 1..Len(log) :
        /\ log[i].ok
        /\ ~Contains(log[i].text, RegisteredWorkers)
        /\ ~Contains(log[i].text, QueryWorkers)
        /\ ~Contains(log[i].text, DeleteWorkers)
        /\ ~Contains(log[i].text, CustomerService)

\* C1: as long as no response carries a trigger, the active state is Main after
\* every turn, and a finished turn made exactly one gateway call and extended the
\* Main history by the user entry and the assistant entry holding the model text,
\* leaving the other histories and the record store as they were.
C1_TriggerFreeTurns ==
    NoTriggerSoFar =>
        /\ current_assignment = "system"
        /\ TurnOver =>
              /\ calls = 1
              /\ reply = Returned(step.text)
              /\ messages["system"] =
                    pre.messages["system"]
                      \o <<Entry("user", InputLine(turn)), Entry("assistant", step.text)>>
              /\ \A s \in SubDialogues : messages[s] = pre.messages[s]
              /\ user_database = pre.user_database
              /\ next_user_id = pre.next_user_id

C1_Witness ==
    /\ NoTriggerSoFar
    /\ TurnOver
    /\ turn = 2
    /\ Len(messages["system"]) = 5

\* C2: a turn started in Main whose first response switches to T and whose second
\* response carries only the return trigger ends in Main, with history[T] reset to
\* its system entry and with everything T's history held at finalize time, minus
\* the system entry, appended in order to the end of history[Main].
C2_SwitchThenReturn ==
    ( /\ TurnOver
      /\ calls = 2
      /\ pre.current_assignment = "system"
      /\ step.kind = "finalize"
      /\ step.from \in SubDialogues
      /\ Trigger(log[Len(log) - 1].text) = step.from )
    => LET T    == step.from
           held == Append(step.before.messages[T], Entry("assistant", reply.text))
       IN  /\ current_assignment = "system"
           /\ messages[T] = <<SystemEntry(T)>>
           /\ messages["system"] = step.before.messages["system"] \o Tail(held)
           /\ step.before.messages["system"] =
                 pre.messages["system"]
                   \o <<Entry("user", user_input),
                        Entry("assistant", log[Len(log) - 1].text)>>
           /\ held[1] = SystemEntry(T)

C2_Witness ==
    /\ TurnOver
    /\ calls = 2
    /\ pre.current_assignment = "system"
    /\ step.kind = "finalize"
    /\ step.from = "query"
    /\ Len(messages["system"]) = 5
    /\ messages["query"] = <<SystemEntry("query")>>

\* C3: in Main a response with the return trigger and no switch trigger is a plain
\* continuation: history[Main] grows by the user entry and one assistant entry,
\* nothing is merged or reset, the store is unchanged, the model text is returned
\* unmodified and the active state stays Main.
C3_ReturnInMainIsPlain ==
    (step.kind = "finalize" /\ step.from = "system") =>
        /\ messages["system"] =
              Append(step.before.messages["system"], Entry("assistant", step.text))
        /\ \A s \in SubDialogues : messages[s] = step.before.messages[s]
        /\ user_database = step.before.user_database
        /\ next_user_id = step.before.next_user_id
        /\ reply = Returned(step.text)
        /\ current_assignment = "system"

\* C4: a response in state S with a switch trigger for T # S is appended to
\* history[S], the active state becomes T, the turn's user text is appended to
\* history[T] exactly when history[T] did not end with a user entry, and nothing is
\* returned: get_response is back at its gateway call, which it makes with
\* history[T]; every later call of the turn passes the history of the active state.
C4_SwitchWithinTurn ==
    /\ (step.kind = "switch" /\ Trigger(step.text) # step.from) =>
          LET S == step.from
              T == Trigger(step.text)
              b == step.before.messages
          IN  /\ messages[S] = Append(b[S], Entry("assistant", step.text))
              /\ current_assignment = T
              /\ messages[T] = IF Last(b[T]).role # "user"
                               THEN Append(b[T], Entry("user", InputLine(turn)))
                               ELSE b[T]
              /\ pc = "loop"
              /\ reply = NoReply
              /\ current_messages = T
    /\ (step.kind # "none" /\ calls >= 2) =>
          /\ step.sent = step.before.messages[step.from]
          /\ log[Len(log) - 1].turn = turn
          /\ step.from = Trigger(log[Len(log) - 1].text)

C4_Witness ==
    /\ step.kind = "finalize"
    /\ calls = 2
    /\ step.from = "registered"
    /\ step.sent = <<SystemEntry("registered"), Entry("user", InputLine(1))>>

\* the triggers in their order of priority, each with the action it selects
Priority ==
    << [trigger |-> RegisteredWorkers, action |-> "registered"],
       [trigger |-> QueryWorkers,      action |-> "query"],
       [trigger |-> DeleteWorkers,     action |-> "delete"],
       [trigger |-> CustomerService,   action |-> "return"] >>

\* the action of the first trigger, in priority order, that the text contains
Winner(text) ==
    LET present == {n \in 1..Len(Priority) : Contains(text, Priority[n].trigger)}
    IN  IF present = {} THEN "none" ELSE Priority[Min(present)].action

\* C5: each response causes exactly the one action of its highest-priority
\* trigger (registration, lookup, deletion, return); a response with a switch
\* trigger and the return trigger switches, and extracts nothing, leaves the store
\* alone, merges nothing and resets nothing.
C5_TriggerPriority ==
    step.kind \in {"switch", "finalize", "plain"} =>
        LET w == Winner(step.text)
            b == step.before
        IN  /\ step.kind = "switch" <=> w \in SubDialogues
            /\ step.kind = "finalize" <=> w = "return"
            /\ step.kind = "plain" <=> w = "none"
            /\ w \in SubDialogues =>
                  /\ current_assignment = w
                  /\ pc = "loop"
                  /\ reply = NoReply
                  /\ user_database = b.user_database
                  /\ next_user_id = b.next_user_id
                  /\ \A s \in States \ {step.from, w} : messages[s] = b.messages[s]
                  /\ \A s \in States :
                        /\ Len(messages[s]) >= Len(b.messages[s])
                        /\ SubSeq(messages[s], 1, Len(b.messages[s])) = b.messages[s]

C5_Witness ==
    /\ step.kind = "switch"
    /\ step.from = "registered"
    /\ step.text = RespTieDelete
    /\ parse_registration_info(step.text).ok
    /\ current_assignment = "delete"
    /\ user_database = EmptyDatabase

\* C6: one call of get_response makes at most (number of states + 1) = 5 gateway
\* calls, whatever the responses are.
C6_BoundedGatewayCalls == calls <= Cardinality(States) + 1

\* C7: when a gateway call raises, the active state, the four histories and the
\* record store are what they were when the turn began.
C7_FailureLeavesStateUnchanged ==
    step.kind = "raise" => Snapshot = pre

\* C8: the text returned by a turn is the content of the last assistant entry the
\* turn recorded, and that entry is the last entry of the history of the state
\* that is active after the turn.
C8_ReplyIsLastEntry ==
    (TurnOver /\ reply.kind = "text") =>
        Last(messages[current_assignment]) = Entry("assistant", reply.text)

\* the extraction of the finished task fails on this text
ExtractionFails(state, text) ==
    CASE state = "registered" -> ~parse_registration_info(text).ok
      [] state = "query"      -> ~parse_query_info(text).ok
      [] state = "delete"     -> ~parse_delete_info(text).ok

FailureNotice(state) ==
    CASE state = "registered" -> MsgRegisterParseFailed
      [] state = "query"      -> MsgQueryParseFailed
      [] state = "delete"     -> MsgDeleteParseFailed

\* C9: a finalize of sub-dialogue S whose extraction fails still completes the
\* turn: store and next-id counter unchanged, the model text plus the failure
\* notice returned, history[S] merged into Main and reset, active state Main.
C9_FailedExtractionCompletes ==
    ( /\ step.kind = "finalize"
      /\ step.from \in SubDialogues
      /\ ExtractionFails(step.from, step.text) )
    => LET S == step.from
           b == step.before
           final == Entry("assistant", step.text \o FailureNotice(S))
       IN  /\ pc = "input"
           /\ reply = Returned(final.content)
           /\ user_database = b.user_database
           /\ next_user_id = b.next_user_id
           /\ messages[S] = <<SystemEntry(S)>>
           /\ messages["system"] =
                 b.messages["system"] \o Tail(b.messages[S]) \o <<final>>
           /\ \A s \in SubDialogues \ {S} : messages[s] = b.messages[s]
           /\ current_assignment = "system"

C9_Witness ==
    /\ step.kind = "finalize"
    /\ step.from = "registered"
    /\ step.text = RespRegisterNoEmail
    /\ reply = Returned(RespRegisterNoEmail \o MsgRegisterParseFailed)

\* C10: the store changes at two kinds of step only.  A registration finalize
\* with a successful extraction adds one record under the previous next-id and
\* keeps the others; a deletion finalize whose id, password and email match a
\* record removes that record and keeps the others; every other step leaves the
\* records and the next-id counter as they were.
C10_StoreFrame ==
    LET b == step.before
        same(ids) == \A id \in ids : user_database[id] = b.user_database[id]
    IN  IF step.kind = "none"
        THEN user_database = pre.user_database /\ next_user_id = pre.next_user_id
        ELSE IF /\ step.kind = "finalize"
                /\ step.from = "registered"
                /\ parse_registration_info(step.text).ok
        THEN /\ b.next_user_id \notin DOMAIN b.user_database
             /\ DOMAIN user_database = DOMAIN b.user_database \cup {b.next_user_id}
             /\ same(DOMAIN b.user_database)
             /\ user_database[b.next_user_id] = parse_registration_info(step.text).info
             /\ next_user_id = b.next_user_id + 1
        ELSE IF /\ step.kind = "finalize"
                /\ step.from = "delete"
                /\ parse_delete_info(step.text).ok
                /\ LET d == parse_delete_info(step.text).info
                   IN  /\ d.user_id \in DOMAIN b.user_database
                       /\ b.user_database[d.user_id].password = d.password
                       /\ b.user_database[d.user_id].email = d.email
        THEN LET gone == parse_delete_info(step.text).info.user_id
             IN  /\ DOMAIN user_database = DOMAIN b.user_database \ {gone}
                 /\ same(DOMAIN user_database)
                 /\ next_user_id = b.next_user_id
        ELSE /\ user_database = b.user_database
             /\ next_user_id = b.next_user_id

C10_Witness ==
    /\ step.kind = "finalize"
    /\ step.from = "delete"
    /\ DOMAIN step.before.user_database = {FirstUserId}
    /\ DOMAIN user_database = {}
    /\ next_user_id = FirstUserId + 1

\* C11: the k-th registration receives id 10000 + k, so ids are unique and
\* strictly increasing from 10001 and never assigned again after a deletion; every
\* id in the store is smaller than the next-id counter.
C11_IdsIncrease ==
    /\ \A k \in 1..Len(log) : log[k] = 10000 + k
    /\ next_user_id = FirstUserId + Len(log)
    /\ \A id \in DOMAIN user_database :
          /\ id < next_user_id
          /\ \E k \in 1..Len(log) : log[k] = id
    /\ step.kind = "register" =>
          /\ step.ret \notin DOMAIN step.before.user_database
          /\ step.ret \in DOMAIN user_database

\* an id is assigned after the record of an earlier id was deleted
C11_Witness ==
    /\ step.kind = "register"
    /\ step.ret = FirstUserId + 1
    /\ DOMAIN step.before.user_database = {}
    /\ DOMAIN user_database = {FirstUserId + 1}

\* C12: _register_user(f) returning id i followed at once by
\* _query_user(i, f.password) gives a record with the name, gender, age and email
\* of f and without a password field.
C12_CreateThenRead ==
    step.kind = "register" =>
        LET r == query_user(user_database, step.ret, step.info.password)
        IN  /\ r.found
            /\ DOMAIN r.data = {"name", "gender", "age", "email"}
            /\ r.data.name = step.info.name
            /\ r.data.gender = step.info.gender
            /\ r.data.age = step.info.age
            /\ r.data.email = step.info.email

C12_Witness ==
    /\ step.kind = "register"
    /\ step.ret = FirstUserId + 1
    /\ FirstUserId \in DOMAIN user_database
    /\ user_database[FirstUserId].password # step.info.password
    /\ query_user(user_database, step.ret, step.info.password).found

\* C13: a lookup of an id that is not in the store and a lookup of a stored id
\* with a wrong password give the same NotFound value, and the lookup finalize
\* gives the same reply and leaves the same dispatcher state in both cases.
C13_LookupHidesIds ==
    ( /\ step.kind = "finalize"
      /\ step.from = "query"
      /\ parse_query_info(step.text).ok
      /\ LET q == parse_query_info(step.text).info
             b == step.before.user_database
         IN  \/ q.user_id \notin DOMAIN b
             \/ b[q.user_id].password # q.password )
    => LET q == parse_query_info(step.text).info
           b == step.before
           final == Entry("assistant", step.text \o MsgQueryFailed)
       IN  /\ query_user(b.user_database, q.user_id, q.password) = [found |-> FALSE]
           /\ reply = Returned(final.content)
           /\ user_database = b.user_database
           /\ next_user_id = b.next_user_id
           /\ current_assignment = "system"
           /\ messages["query"] = <<SystemEntry("query")>>
           /\ messages["system"] =
                 b.messages["system"] \o Tail(b.messages["query"]) \o <<final>>
           /\ \A s \in {"registered", "delete"} : messages[s] = b.messages[s]

\* a stored id looked up with a wrong password
C13_Witness ==
    /\ step.kind = "finalize"
    /\ step.from = "query"
    /\ parse_query_info(step.text).ok
    /\ parse_query_info(step.text).info.user_id \in DOMAIN step.before.user_database
    /\ reply = Returned(step.text \o MsgQueryFailed)

\* the ids _register_user returned whose record is no longer stored
DeletedIds(db) == {log[k] : k \in 1..Len(log)} \ DOMAIN db

\* C14: _delete_user reports success and removes the record exactly when the id
\* is stored with the given password and email, otherwise it reports failure and
\* changes nothing; after a successful deletion every later query or deletion of
\* that id reports NotFound.
C14_DeleteIffMatch ==
    /\ step.kind = "delete" =>
          LET b == step.before.user_database
              match == /\ step.user_id \in DOMAIN b
                       /\ b[step.user_id].password = step.password
                       /\ b[step.user_id].email = step.email
          IN  /\ step.ret <=> match
              /\ match =>
                    /\ DOMAIN user_database = DOMAIN b \ {step.user_id}
                    /\ \A id \in DOMAIN user_database : user_database[id] = b[id]
              /\ ~match => user_database = b
              /\ next_user_id = step.before.next_user_id
    /\ ( /\ step.kind \in {"query", "delete"}
         /\ step.user_id \in DeletedIds(step.before.user_database) )
       => IF step.kind = "query" THEN step.ret = [found |-> FALSE] ELSE step.ret = FALSE

\* a query of an id whose record was deleted, with the password it had
C14_Witness ==
    /\ step.kind = "query"
    /\ step.user_id = FirstUserId
    /\ step.password = <<"pass1">>
    /\ step.user_id \in DeletedIds(step.before.user_database)
    /\ FirstUserId + 1 \in DOMAIN user_database

\* C15: the registration text of the documented format yields the values written
\* between the labels and the commas (no separator in any value); registering the
\* result in an empty store gives id 10001, and a query of 10001 with "pass1"
\* returns the record without the password.
C15_DocumentedRegistration ==
    ( /\ step.kind = "finalize"
      /\ step.from = "registered"
      /\ step.text = RespRegisterOK
      /\ step.before.user_database = EmptyDatabase )
    => LET p == parse_registration_info(step.text)
           r == query_user(user_database, 10001, <<"pass1">>)
       IN  /\ p.ok
           /\ p.info = [name |-> <<"ZhangSan">>, gender |-> <<"Male">>, age |-> 25,
                        password |-> <<"pass1">>, email |-> Email("a")]
           /\ DOMAIN user_database = {10001}
           /\ r.found
           /\ r.data = [name |-> <<"ZhangSan">>, gender |-> <<"Male">>, age |-> 25,
                        email |-> Email("a")]

IsPrefix(s, t) == Len(s) <= Len(t) /\ SubSeq(t, 1, Len(s)) = s

\* C17: over a turn the history of every state X only grows at its end, except
\* that the history of a sub-dialogue X is back to its single system entry after
\* a turn that finalizes X; in particular the main history is never shortened.
C17_HistoriesGrow ==
    TurnOver =>
        \A X \in States :
            \/ IsPrefix(pre.messages[X], messages[X])
            \/ /\ X # "system"
               /\ step.kind = "finalize"
               /\ step.from = X
               /\ messages[X] = <<SystemEntry(X)>>

\* C18: a step leaves alone the history of every sub-dialogue that is active
\* neither before nor after it, and while Main is not active its history changes
\* only by the merge of a finalize.
C18_OnlyActiveHistoryChanges ==
    /\ (pc = "loop" /\ step.kind = "none") =>
          \A X \in States \ {current_assignment} : messages[X] = pre.messages[X]
    /\ step.kind \in {"switch", "finalize", "plain", "raise"} =>
          /\ \A T \in SubDialogues \ {step.from, current_assignment} :
                 messages[T] = step.before.messages[T]
          /\ ( /\ step.from # "system"
               /\ messages["system"] # step.before.messages["system"] )
             => /\ step.kind = "finalize"
                /\ messages["system"] =
                       step.before.messages["system"]
                         \o Tail(step.before.messages[step.from])
                         \o <<Entry("assistant", reply.text)>>

C18_Witness ==
    /\ step.kind = "switch"
    /\ step.from = "registered"
    /\ current_assignment = "query"
    /\ Len(messages["delete"]) = 1
    /\ Len(messages["system"]) > 1
    /\ messages["system"] = step.before.messages["system"]

\* C19: after get_response has raised, the loop is at its input prompt with the
\* apology as the reply and with the active state, the histories and the store
\* exactly as they were when the gateway call failed; the loop is left only by a
\* line that is exit or quit in any letter case, no turn is run for such a line,
\* and no such line is ever handed to get_response.
C19_ErrorKeepsSession ==
    /\ step.kind = "raise" =>
          /\ pc = "input"
          /\ reply = Raised
          /\ Snapshot = step.before
    /\ pc = "exited" =>
          /\ step.kind = "exit"
          /\ Lower(step.line) \in ExitWords
          /\ Snapshot = step.before
          /\ turn = step.turn
          /\ Len(log) = step.calls
    /\ pc = "loop" => Lower(user_input) \notin ExitWords

C19_Witness ==
    /\ pc = "loop"
    /\ step.kind = "none"
    /\ turn = 2
    /\ ~Last(log).ok
    /\ Last(log).turn = 1
    /\ current_assignment = "registered"
    /\ pre.current_assignment = "registered"

\* C20: a gateway request of get_response is attempted again after a failure, so
\* its failure reaches start_conversation only after three consecutive failed
\* attempts of the same turn.
C20_FailureAfterThreeAttempts ==
    reply = Raised =>
        /\ Len(log) >= 3
        /\ \A i \in (Len(log) - 2)..Len(log) : ~log[i].ok /\ log[i].turn = turn

\* C21: a response whose winning trigger names the state that is already active
\* is not a switch: the turn ends with it, and the history of that state gets the
\* response as one assistant entry after the user entry and nothing else.
C21_SelfSwitchIsPlain ==
    ( /\ step.kind \in {"switch", "finalize", "plain"}
      /\ Trigger(step.text) = step.from )
    => /\ pc = "input"
       /\ current_assignment = step.from
       /\ messages[step.from] =
              Append(step.before.messages[step.from], Entry("assistant", step.text))

\* C22: whenever a turn ends in the main dialogue, the history of every
\* sub-dialogue is its system entry alone, also after a chain of switches.
C22_SubDialoguesCleanInMain ==
    (TurnOver /\ current_assignment = "system")
    => \A T \in SubDialogues : messages[T] = <<SystemEntry(T)>>

\* C23: once the registration in the documented format has stored id 10001, the
\* lookup in the documented format with the same password reports success with
\* the record (name, gender, age, email), and the deletion in the documented
\* format with the same id, password and email removes the record.
C23_DialogueRoundTrip ==
    /\ ( /\ step.kind = "finalize"
         /\ step.from = "query"
         /\ step.text = RespQuery
         /\ FirstUserId \in DOMAIN step.before.user_database )
       => reply = Returned(step.text \o MsgQueryOK(
                      [name |-> <<"ZhangSan">>, gender |-> <<"Male">>, age |-> 25,
                       email |-> Email("a")]))
    /\ ( /\ step.kind = "finalize"
         /\ step.from = "delete"
         /\ step.text = RespDelete
         /\ FirstUserId \in DOMAIN step.before.user_database )
       => /\ reply = Returned(step.text \o MsgDeleted)
          /\ FirstUserId \notin DOMAIN user_database

\* C24: at every gateway call of get_response the list passed is the history of
\* the state active at that moment, it begins with that state's system entry and
\* it ends with a user entry holding the text of the current turn.
C24_SentIsActiveHistory ==
    step.kind \in {"switch", "finalize", "plain", "raise"} =>
        /\ step.from = step.before.current_assignment
        /\ step.sent = step.before.messages[step.from]
        /\ Head(step.sent) = SystemEntry(step.from)
        /\ Last(step.sent) = Entry("user", user_input)

\* the second call of a turn, made in the sub-dialogue just entered
C24_Witness ==
    /\ step.kind = "plain"
    /\ step.from = "registered"
    /\ calls = 2
    /\ step.sent = <<SystemEntry("registered"), Entry("user", user_input)>>

\* C25: in every reachable state each of the four histories is non-empty, its
\* first entry is the system entry of its own state, and no other entry has the
\* system role, so no merge copies a system entry into the main history.
C25_OneSystemEntry ==
    \A X \in States :
        /\ Len(messages[X]) >= 1
        /\ messages[X][1] = SystemEntry(X)
        /\ \A i \in 2..Len(messages[X]) : messages[X][i].role # "system"

\* just after the merge of a finished registration
C25_Witness ==
    /\ step.kind = "finalize"
    /\ step.from = "registered"
    /\ Len(step.before.messages["registered"]) >= 2
    /\ Len(messages["system"]) >= 5
    /\ messages["registered"] = <<SystemEntry("registered")>>

Alternates(h) ==
    \A i \in 2..Len(h) : h[i].role = IF i % 2 = 0 THEN "user" ELSE "assistant"

NoGatewayFailure == \A i \in 1..Len(log) : log[i].ok

\* C26: as long as no gateway call has failed, at every turn boundary each
\* history is its system entry followed by entries whose roles alternate user,
\* assistant, user, ...
C26_RolesAlternate ==
    (TurnOver /\ NoGatewayFailure)
    => \A X \in States :
           /\ Head(messages[X]).role = "system"
           /\ Alternates(messages[X])

\* a turn that went through registration, switched on to the lookup and merged it
C26_Witness ==
    /\ TurnOver
    /\ NoGatewayFailure
    /\ step.kind = "finalize"
    /\ step.from = "query"
    /\ Len(messages["registered"]) = 3
    /\ Len(messages["system"]) >= 5

\* neither the whole text nor the content of a json block of it is JSON
NotJson(text) ==
    /\ ~IsJson(text)
    /\ \A i \in 1..Len(text) : \A j \in (i + 1)..Len(text) :
           (text[i] = "~~~json" /\ text[j] \in Fences) => ~IsJson(SubSeq(text, i + 1, j - 1))

Aligned ==
    /\ env.questions = env.standard_answers
    /\ env.questions = env.grading_criterias
    /\ env.questions = env.student_answers

\* C27: a response that is not JSON, neither as a whole nor inside a json block,
\* makes grade_answer raise and is never its result; batch_grade over n aligned
\* items returns exactly n entries, the i-th being the result of item i or, when
\* the grading of item i failed, the error record with index i, and the loop goes
\* on to the next item after a failure.
C27_ParseFailureIsAnError ==
    /\ (step.kind = "answer" /\ NotJson(step.text)) =>
          /\ ~step.outcome.ok
          /\ Last(log) = ErrorRecord(step.item)
    /\ step.kind = "answer" =>
          /\ pc = "batch"
          /\ log = Append(step.before,
                          IF step.outcome.ok THEN step.outcome.value
                          ELSE ErrorRecord(step.item))
          /\ Len(log) = step.item
    /\ step.kind = "giveup" =>
          /\ pc = "batch"
          /\ log = Append(step.before, ErrorRecord(step.item))
          /\ Len(log) = step.item
    /\ (pc = "returned" /\ Aligned) =>
          /\ reply.results = log
          /\ Len(log) = env.questions

====
